---- MODULE Spec2Model ----
(***************************************************************************)
(* Korea trip budget calculator (src/app.py).                              *)
(*                                                                         *)
(* The script is a Streamlit page: every widget event re-runs the whole    *)
(* script from its first line with the widgets' current values.  A state   *)
(* of this model is the set of script variables at the end of one run.     *)
(*                                                                         *)
(* Python numbers: the script's int values are TLA+ integers; its float    *)
(* values (everything that depends on FOREIGNER_MULTIPLIER_ON_GROUND or on *)
(* a true division) are IEEE-754 binary64 values, modelled exactly below.  *)
(***************************************************************************)
EXTENDS Integers, Sequences, FiniteSets, TLC

(***************************************************************************)
(* Let(x, F) is F(x) with x evaluated once: TLC evaluates an operator's    *)
(* argument anew at each use of the parameter, a bound variable only once. *)
(***************************************************************************)
Let(x, F(_)) == CHOOSE r \in {F(v) : v \in {x}} : TRUE
Let2(x, y, F(_, _)) == CHOOSE r \in {F(v, w) : v \in {x}, w \in {y}} : TRUE

(***************************************************************************)
(* Natural numbers of any size: little-endian sequences of limbs in        *)
(* 0..Base-1 without a leading zero limb (<<>> is 0).  TLC's own integers  *)
(* are 32 bits wide, too narrow for a 53-bit significand.                  *)
(***************************************************************************)
Base == 2^15

RECURSIVE BNat(_)
BNat(n) == IF n = 0 THEN <<>> ELSE <<n % Base>> \o BNat(n \div Base)

\* a without its leading zero limbs
BTrimV(a) ==
  SubSeq(a, 1, CHOOSE n \in 0..Len(a) :
                 /\ n = 0 \/ a[n] # 0
                 /\ \A j \in (n + 1)..Len(a) : a[j] = 0)
BTrim(a) == Let(a, BTrimV)

BLimb(a, i) == IF i <= Len(a) THEN a[i] ELSE 0

BMaxLen(a, b) == IF Len(a) >= Len(b) THEN Len(a) ELSE Len(b)

RECURSIVE BAddFrom(_, _, _, _)
BAddFrom(a, b, i, carry) ==
  IF i > BMaxLen(a, b)
  THEN IF carry = 0 THEN <<>> ELSE <<carry>>
  ELSE Let(BLimb(a, i) + BLimb(b, i) + carry,
           LAMBDA s : <<s % Base>> \o BAddFrom(a, b, i + 1, s \div Base))

BAddV(a, b) == BAddFrom(a, b, 1, 0)
BAdd(a, b) == Let2(a, b, BAddV)

\* a - b for a >= b
RECURSIVE BSubFrom(_, _, _, _)
BSubFrom(a, b, i, borrow) ==
  IF i > Len(a) THEN <<>>
  ELSE Let(BLimb(a, i) - BLimb(b, i) - borrow,
           LAMBDA d : IF d < 0 THEN <<d + Base>> \o BSubFrom(a, b, i + 1, 1)
                               ELSE <<d>> \o BSubFrom(a, b, i + 1, 0))

BSubV(a, b) == BTrim(BSubFrom(a, b, 1, 0))
BSub(a, b) == Let2(a, b, BSubV)

\* -1, 0, 1 as a < b, a = b, a > b
RECURSIVE BCmpFrom(_, _, _)
BCmpFrom(a, b, i) ==
  IF i = 0 THEN 0
  ELSE IF a[i] < b[i] THEN -1
  ELSE IF a[i] > b[i] THEN 1
  ELSE BCmpFrom(a, b, i - 1)

BCmpV(a, b) ==
  IF Len(a) < Len(b) THEN -1
  ELSE IF Len(a) > Len(b) THEN 1
  ELSE BCmpFrom(a, b, Len(a))
BCmp(a, b) == Let2(a, b, BCmpV)

\* a * k for 0 <= k < Base
RECURSIVE BMulLimbFrom(_, _, _, _)
BMulLimbFrom(a, k, i, carry) ==
  IF i > Len(a)
  THEN IF carry = 0 THEN <<>> ELSE <<carry>>
  ELSE Let(a[i] * k + carry,
           LAMBDA p : <<p % Base>> \o BMulLimbFrom(a, k, i + 1, p \div Base))

BMulLimbV(a, k) == BTrim(BMulLimbFrom(a, k, 1, 0))
BMulLimb(a, k) == Let2(a, k, BMulLimbV)

\* a * Base^n
BShiftLimbsV(a, n) == IF a = <<>> THEN <<>> ELSE [i \in 1..n |-> 0] \o a
BShiftLimbs(a, n) == Let2(a, n, BShiftLimbsV)

RECURSIVE BMulFrom(_, _, _)
BMulFrom(a, b, j) ==
  IF j > Len(b) THEN <<>>
  ELSE BAdd(BShiftLimbs(BMulLimb(a, b[j]), j - 1), BMulFrom(a, b, j + 1))

BMulV(a, b) == BMulFrom(a, b, 1)
BMul(a, b) == Let2(a, b, BMulV)

\* floor(a / d) and a mod d for 0 < d < Base
RECURSIVE BDivLimbFrom(_, _, _, _)
BDivLimbFrom(a, d, i, rem) ==
  IF i = 0 THEN [q |-> <<>>, r |-> rem]
  ELSE Let(rem * Base + a[i],
           LAMBDA cur : Let(BDivLimbFrom(a, d, i - 1, cur % d),
                            LAMBDA rest : [q |-> rest.q \o <<cur \div d>>, r |-> rest.r]))

BDivLimbV(a, d) ==
  Let(BDivLimbFrom(a, d, Len(a), 0), LAMBDA res : [q |-> BTrim(res.q), r |-> res.r])
BDivLimb(a, d) == Let2(a, d, BDivLimbV)

\* a * 2^n
BShlV(a, n) == BShiftLimbs(BMulLimb(a, 2^(n % 15)), n \div 15)
BShl(a, n) == Let2(a, n, BShlV)

\* floor(a / 2^n)
BShrV(a, n) ==
  IF n \div 15 >= Len(a) THEN <<>>
  ELSE BDivLimb(SubSeq(a, (n \div 15) + 1, Len(a)), 2^(n % 15)).q
BShr(a, n) == Let2(a, n, BShrV)

RECURSIVE BitsOf(_)
BitsOf(k) == IF k = 0 THEN 0 ELSE 1 + BitsOf(k \div 2)

BitLenV(a) == IF a = <<>> THEN 0 ELSE 15 * (Len(a) - 1) + BitsOf(a[Len(a)])
BitLen(a) == Let(a, BitLenV)

BOdd(a) == a # <<>> /\ a[1] % 2 = 1

(***************************************************************************)
(* Python float.  A dyadic number is [neg, m, e], the value                *)
(* (-1)^neg * m * 2^e.  A float is a dyadic number whose m has exactly     *)
(* MantBits bits, or zero, so that equal floats are equal records.  The    *)
(* exponent range is not modelled: no amount of the script comes near      *)
(* overflow or the subnormals.                                             *)
(***************************************************************************)
MantBits == 53

FZero == [neg |-> FALSE, m |-> <<>>, e |-> 0]

\* x with the s low bits of its m rounded away, q = floor(m / 2^s):
\* to nearest, ties to even
RoundBits(x, s, q) ==
  Let(BCmp(BSub(x.m, BShl(q, s)), BShl(<<1>>, s - 1)),
      LAMBDA c :
        Let(IF c > 0 \/ (c = 0 /\ BOdd(q)) THEN BAdd(q, <<1>>) ELSE q,
            LAMBDA q2 :
              IF BitLen(q2) > MantBits
              THEN [neg |-> x.neg, m |-> BShr(q2, 1), e |-> x.e + s + 1]
              ELSE [neg |-> x.neg, m |-> q2, e |-> x.e + s]))

\* the float nearest to the dyadic number x, whose m has len bits
RoundLen(x, len) ==
  IF len = 0 THEN FZero
  ELSE IF len <= MantBits
  THEN [neg |-> x.neg, m |-> BShl(x.m, MantBits - len), e |-> x.e - (MantBits - len)]
  ELSE Let(BShr(x.m, len - MantBits), LAMBDA q : RoundBits(x, len - MantBits, q))

RoundV(x) == Let(BitLen(x.m), LAMBDA len : RoundLen(x, len))
Round(x) == Let(x, RoundV)

\* ma * 2^e + mb * 2^e with the signs of a and b
XAddAligned(a, b, e, ma, mb) ==
  IF a.neg = b.neg THEN [neg |-> a.neg, m |-> BAdd(ma, mb), e |-> e]
  ELSE Let(BCmp(ma, mb),
           LAMBDA c : IF c = 0 THEN FZero
                      ELSE IF c > 0 THEN [neg |-> a.neg, m |-> BSub(ma, mb), e |-> e]
                      ELSE [neg |-> b.neg, m |-> BSub(mb, ma), e |-> e])

\* exact sum of two dyadic numbers
XAddV(a, b) ==
  IF a.m = <<>> THEN b
  ELSE IF b.m = <<>> THEN a
  ELSE Let(IF a.e <= b.e THEN a.e ELSE b.e,
           LAMBDA e : Let2(BShl(a.m, a.e - e), BShl(b.m, b.e - e),
                           LAMBDA ma, mb : XAddAligned(a, b, e, ma, mb)))
XAdd(a, b) == Let2(a, b, XAddV)

XNegV(a) == IF a.m = <<>> THEN a ELSE [a EXCEPT !.neg = ~a.neg]
XNeg(a) == Let(a, XNegV)

XSub(a, b) == XAdd(a, XNeg(b))

XMulV(a, b) ==
  IF a.m = <<>> \/ b.m = <<>> THEN FZero
  ELSE [neg |-> a.neg # b.neg, m |-> BMul(a.m, b.m), e |-> a.e + b.e]
XMul(a, b) == Let2(a, b, XMulV)

\* exact comparisons of dyadic numbers
XSignV(a) == IF a.m = <<>> THEN 0 ELSE IF a.neg THEN -1 ELSE 1
XSign(a) == Let(a, XSignV)
XLess(a, b) == XSign(XSub(a, b)) < 0
XLeq(a, b) == XSign(XSub(a, b)) <= 0
XAbs(a) == [a EXCEPT !.neg = FALSE]

\* int -> float (exact below 2^53)
FromIntV(n) ==
  IF n >= 0 THEN Round([neg |-> FALSE, m |-> BNat(n), e |-> 0])
  ELSE Round([neg |-> TRUE, m |-> BNat(-n), e |-> 0])
FromInt(n) == Let(n, FromIntV)

FAdd(a, b) == Round(XAdd(a, b))
FSub(a, b) == Round(XSub(a, b))
FMul(a, b) == Round(XMul(a, b))

\* a / d for an int 0 < d < Base, correctly rounded: the quotient is taken
\* with two guard bits and a sticky bit for the remainder
FDivIntV(a, d) ==
  Let(BDivLimb(BShl(a.m, BitsOf(d) + 2), d),
      LAMBDA res :
        Round([neg |-> a.neg,
               m   |-> BAdd(BShl(res.q, 1), IF res.r = 0 THEN <<>> ELSE <<1>>),
               e   |-> a.e - (BitsOf(d) + 2) - 1]))
FDivInt(a, d) == Let2(a, d, FDivIntV)

(***************************************************************************)
(* The script's state: its variables at the end of a run.  The values of   *)
(* the five number inputs live on as edited_daily and edited_one_time, and *)
(* the toggle as show_savings_panel: the next run reads them back.         *)
(***************************************************************************)
VARIABLES
  locked,                    \* the LOCKED ASSUMPTIONS globals, lines 8-15
  show_savings_panel,
  flight_krw, accom_krw,
  edited_daily, daily_total_krw, daily_trip_total_krw,
  edited_one_time, one_time_total_krw,
  with_robin_on_ground_krw, with_robin_total_krw,
  with_robin_total_usd,      \* krw_to_usd(with_robin_total_krw), line 142
  solo_on_ground_krw, solo_total_krw, savings_krw,
  solo_total_usd, savings_usd,   \* lines 198 and 200
  rt_pc, rt_kind, rt_usd, rt_krw, rt_back  \* krw_to_usd(usd_to_krw(rt_usd)), step by step

vars == <<locked, show_savings_panel, flight_krw, accom_krw,
          edited_daily, daily_total_krw, daily_trip_total_krw,
          edited_one_time, one_time_total_krw,
          with_robin_on_ground_krw, with_robin_total_krw, with_robin_total_usd,
          solo_on_ground_krw, solo_total_krw, savings_krw,
          solo_total_usd, savings_usd,
          rt_pc, rt_kind, rt_usd, rt_krw, rt_back>>

FX_KRW_PER_USD == 1447
NIGHTS == 7
FLIGHT_USD == 1500
ACCOM_WEEK_USD_PER_PERSON == 100
\* the literal 2.7 is the float nearest to 27/10
FOREIGNER_MULTIPLIER_ON_GROUND == FDivInt(FromInt(27), 10)

LOCKED ==
  [FX_KRW_PER_USD |-> FX_KRW_PER_USD,
   NIGHTS |-> NIGHTS,
   FLIGHT_USD |-> FLIGHT_USD,
   ACCOM_WEEK_USD_PER_PERSON |-> ACCOM_WEEK_USD_PER_PERSON,
   FOREIGNER_MULTIPLIER_ON_GROUND |-> FOREIGNER_MULTIPLIER_ON_GROUND]

\* usd: int (the script's two calls); int * int is an int
usd_to_krw(L, usd) == usd * L.FX_KRW_PER_USD

\* usd: float; float * int is a float
usd_to_krw_float(L, usd) == FMul(usd, FromInt(L.FX_KRW_PER_USD))

\* krw_to_usd converting the wrong way round
krw_to_usd_multiplying(L, krw) == FMul(krw, FromInt(L.FX_KRW_PER_USD))

\* true division: the result is a float whatever krw is; an int krw is
\* passed as FromInt(krw)
krw_to_usd(L, krw) == FDivInt(krw, L.FX_KRW_PER_USD)

DAILY_FIXED ==
  ("Food (regular restaurants)" :> 35000) @@ ("Transit" :> 10000) @@ ("Activities" :> 40000)

DAILY_EDITABLE_DEFAULTS == ("Cafes/snacks" :> 8000) @@ ("Shopping" :> 15000)

ONE_TIME_DEFAULTS ==
  ("SIM/eSIM" :> 30000) @@ ("Airport train (AREX)" :> 12000) @@ ("Buffer" :> 40000)

min_value == 0
max_value == 500000
step == 1000

\* sum(d.values())
RECURSIVE SumValues(_)
SumValues(d) ==
  IF DOMAIN d = {} THEN 0
  ELSE LET k == CHOOSE x \in DOMAIN d : TRUE
       IN  d[k] + SumValues([x \in DOMAIN d \ {k} |-> d[x]])

(***************************************************************************)
(* st.number_input(min_value=0, max_value=500_000, value=..., step=1_000), *)
(* when the user enters the int `entered` over the value `current`: the    *)
(* values the call can return on the next run.  An entry within            *)
(* min_value..max_value is returned as entered; step is the increment of   *)
(* the widget's +/- buttons, whose results current + step and current -    *)
(* step are entries like any other.  An entry outside the range never      *)
(* reaches the script: the widget keeps the current value or stops at the  *)
(* bound.                                                                  *)
(***************************************************************************)
\* number_input without min_value and max_value
number_input_unchecked(current, entered) == {entered}

number_input(current, entered) ==
  IF min_value <= entered /\ entered <= max_value THEN {entered}
  ELSE {current, IF entered < min_value THEN min_value ELSE max_value}

\* edited_daily started as {} as edited_one_time is, not as dict(DAILY_FIXED)
EditedDailyNoCopy(daily_inputs) == daily_inputs

\* lines 95-105: a copy of DAILY_FIXED plus one entry per number input
EditedDaily(daily_inputs) == daily_inputs @@ DAILY_FIXED

\* the sum of the number inputs alone
DailyTotalKrwEditableOnly(ed) == SumValues([k \in DOMAIN DAILY_EDITABLE_DEFAULTS |-> ed[k]])

DailyTotalKrw(ed) == SumValues(ed)

\* days for nights
DailyTripTotalKrwDays(L, daily_total) == daily_total * (L.NIGHTS + 1)

DailyTripTotalKrw(L, daily_total) == daily_total * L.NIGHTS

OneTimeTotalKrw(eo) == SumValues(eo)

WithRobinOnGroundKrw(daily_trip_total, one_time_total, accom) ==
  daily_trip_total + one_time_total + accom

\* the flight left out of the total
WithRobinTotalKrwNoFlight(on_ground, flight) == on_ground

WithRobinTotalKrw(on_ground, flight) == on_ground + flight

\* int * float
SoloOnGroundKrw(L, on_ground) == FMul(FromInt(on_ground), L.FOREIGNER_MULTIPLIER_ON_GROUND)

\* the flight multiplied like the on-ground costs
SoloTotalKrwFlightMultiplied(solo_on_ground, flight) ==
  FAdd(solo_on_ground, FMul(FromInt(flight), FOREIGNER_MULTIPLIER_ON_GROUND))

\* the flight left out of the solo estimate
SoloTotalKrwNoFlight(solo_on_ground, flight) == solo_on_ground

\* float + int
SoloTotalKrw(solo_on_ground, flight) == FAdd(solo_on_ground, FromInt(flight))

\* the difference without max(..., 0)
SavingsKrwNoClamp(solo_total, with_robin_total) ==
  FSub(solo_total, FromInt(with_robin_total))

\* max(solo_total_krw - with_robin_total_krw, 0): the second argument wins
\* only when it is strictly greater
SavingsKrw(solo_total, with_robin_total) ==
  Let(FSub(solo_total, FromInt(with_robin_total)),
      LAMBDA diff : IF XLess(diff, FZero) THEN FZero ELSE diff)

\* the value of a name the run never bound
Unbound == [unbound |-> TRUE]

\* lines 162-200: the body of `if show_savings_panel:`
SavingsPanel(L, on_ground, total, flight) ==
  Let(SoloOnGroundKrw(L, on_ground), LAMBDA sog :
    Let(SoloTotalKrw(sog, flight), LAMBDA st :
      Let(SavingsKrw(st, total), LAMBDA sv :
        [solo_on_ground_krw |-> sog, solo_total_krw |-> st, savings_krw |-> sv,
         solo_total_usd |-> krw_to_usd(L, st), savings_usd |-> krw_to_usd(L, sv)])))

NoSavingsPanel ==
  [solo_on_ground_krw |-> Unbound, solo_total_krw |-> Unbound, savings_krw |-> Unbound,
   solo_total_usd |-> Unbound, savings_usd |-> Unbound]

(***************************************************************************)
(* One run of the script, top to bottom, with the globals L, the toggle    *)
(* `show` and the values the number inputs return.                         *)
(***************************************************************************)
Script(L, show, daily_inputs, one_time_inputs) ==
  LET flight == usd_to_krw(L, L.FLIGHT_USD)
      accom  == usd_to_krw(L, L.ACCOM_WEEK_USD_PER_PERSON)
      ed     == EditedDaily(daily_inputs)
      dt     == DailyTotalKrw(ed)
      dtt    == DailyTripTotalKrw(L, dt)
      ott    == OneTimeTotalKrw(one_time_inputs)
      og     == WithRobinOnGroundKrw(dtt, ott, accom)
      tot    == WithRobinTotalKrw(og, flight)
      panel  == IF show THEN SavingsPanel(L, og, tot, flight) ELSE NoSavingsPanel
  IN  [locked |-> L, show_savings_panel |-> show,
       flight_krw |-> flight, accom_krw |-> accom,
       edited_daily |-> ed, daily_total_krw |-> dt, daily_trip_total_krw |-> dtt,
       edited_one_time |-> one_time_inputs, one_time_total_krw |-> ott,
       with_robin_on_ground_krw |-> og, with_robin_total_krw |-> tot,
       with_robin_total_usd |-> krw_to_usd(L, FromInt(tot)),
       panel |-> panel]

\* the state at the end of the run s
IsRun(s) ==
  /\ locked = s.locked
  /\ show_savings_panel = s.show_savings_panel
  /\ flight_krw = s.flight_krw
  /\ accom_krw = s.accom_krw
  /\ edited_daily = s.edited_daily
  /\ daily_total_krw = s.daily_total_krw
  /\ daily_trip_total_krw = s.daily_trip_total_krw
  /\ edited_one_time = s.edited_one_time
  /\ one_time_total_krw = s.one_time_total_krw
  /\ with_robin_on_ground_krw = s.with_robin_on_ground_krw
  /\ with_robin_total_krw = s.with_robin_total_krw
  /\ with_robin_total_usd = s.with_robin_total_usd
  /\ solo_on_ground_krw = s.panel.solo_on_ground_krw
  /\ solo_total_krw = s.panel.solo_total_krw
  /\ savings_krw = s.panel.savings_krw
  /\ solo_total_usd = s.panel.solo_total_usd
  /\ savings_usd = s.panel.savings_usd

Rerun(s) ==
  /\ locked' = s.locked
  /\ show_savings_panel' = s.show_savings_panel
  /\ flight_krw' = s.flight_krw
  /\ accom_krw' = s.accom_krw
  /\ edited_daily' = s.edited_daily
  /\ daily_total_krw' = s.daily_total_krw
  /\ daily_trip_total_krw' = s.daily_trip_total_krw
  /\ edited_one_time' = s.edited_one_time
  /\ one_time_total_krw' = s.one_time_total_krw
  /\ with_robin_on_ground_krw' = s.with_robin_on_ground_krw
  /\ with_robin_total_krw' = s.with_robin_total_krw
  /\ with_robin_total_usd' = s.with_robin_total_usd
  /\ solo_on_ground_krw' = s.panel.solo_on_ground_krw
  /\ solo_total_krw' = s.panel.solo_total_krw
  /\ savings_krw' = s.panel.savings_krw
  /\ solo_total_usd' = s.panel.solo_total_usd
  /\ savings_usd' = s.panel.savings_usd

\* the current values of the two daily number inputs
DailyInputs == [k \in DOMAIN DAILY_EDITABLE_DEFAULTS |-> edited_daily[k]]

\* what a user enters in a number input: the bounds, one past each bound,
\* and MaxTyped typed amounts
MaxTyped == 1
Entered ==
  {min_value - 1, min_value, max_value, max_value + 1} \cup {1234 * i : i \in 1..MaxTyped}

\* the bounds alone
EnteredBounds == {min_value, max_value}

RoundTripIdle ==
  /\ rt_pc = "idle"
  /\ rt_kind = "int"
  /\ rt_usd = 0
  /\ rt_krw = 0
  /\ rt_back = FZero

\* the first run: every widget at its `value=` default, the toggle on (line 71)
Init ==
  /\ \E s \in {Script(LOCKED, TRUE, DAILY_EDITABLE_DEFAULTS, ONE_TIME_DEFAULTS)} : IsRun(s)
  /\ RoundTripIdle

\* an input-change event on a daily number input (lines 97-105), and the rerun
ChangeDaily(L, entries) ==
  /\ \E k \in DOMAIN DAILY_EDITABLE_DEFAULTS, v \in entries :
       \E r \in number_input(edited_daily[k], v) :
         /\ r # edited_daily[k]
         /\ \E s \in {Script(L, show_savings_panel,
                              [DailyInputs EXCEPT ![k] = r], edited_one_time)} : Rerun(s)
  /\ UNCHANGED <<rt_pc, rt_kind, rt_usd, rt_krw, rt_back>>

\* the one-time inputs change and the totals of the run before are shown again
ChangeOneTimeCached(L, entries) ==
  /\ \E k \in DOMAIN ONE_TIME_DEFAULTS, v \in entries :
       \E r \in number_input(edited_one_time[k], v) :
         /\ r # edited_one_time[k]
         /\ edited_one_time' = [edited_one_time EXCEPT ![k] = r]
  /\ UNCHANGED <<locked, show_savings_panel, flight_krw, accom_krw,
                 edited_daily, daily_total_krw, daily_trip_total_krw, one_time_total_krw,
                 with_robin_on_ground_krw, with_robin_total_krw, with_robin_total_usd,
                 solo_on_ground_krw, solo_total_krw, savings_krw,
                 solo_total_usd, savings_usd,
                 rt_pc, rt_kind, rt_usd, rt_krw, rt_back>>

\* an input-change event on a one-time number input (lines 118-126), and the rerun
ChangeOneTime(L, entries) ==
  /\ \E k \in DOMAIN ONE_TIME_DEFAULTS, v \in entries :
       \E r \in number_input(edited_one_time[k], v) :
         /\ r # edited_one_time[k]
         /\ \E s \in {Script(L, show_savings_panel,
                              DailyInputs, [edited_one_time EXCEPT ![k] = r])} : Rerun(s)
  /\ UNCHANGED <<rt_pc, rt_kind, rt_usd, rt_krw, rt_back>>

\* the toggle of line 71, and the rerun
ToggleSavingsPanel(L) ==
  /\ \E s \in {Script(L, ~show_savings_panel, DailyInputs, edited_one_time)} : Rerun(s)
  /\ UNCHANGED <<rt_pc, rt_kind, rt_usd, rt_krw, rt_back>>

Next ==
  \/ ChangeDaily(LOCKED, Entered)
  \/ ChangeOneTime(LOCKED, Entered)
  \/ ToggleSavingsPanel(LOCKED)

Spec == Init /\ [][Next]_vars

(***************************************************************************)
(* The same script with another literal on line 15: the multiplier is      *)
(* t/10 for a t of MultiplierTenths, fixed for the life of the process.    *)
(***************************************************************************)
MultiplierTenths == {5, 10, 27}

LockedWith(tenths) ==
  [LOCKED EXCEPT !.FOREIGNER_MULTIPLIER_ON_GROUND = FDivInt(FromInt(tenths), 10)]

InitAnyMultiplier ==
  /\ \E t \in MultiplierTenths :
       \E s \in {Script(LockedWith(t), TRUE, DAILY_EDITABLE_DEFAULTS, ONE_TIME_DEFAULTS)} :
         IsRun(s)
  /\ RoundTripIdle

NextAnyMultiplier ==
  \/ ChangeDaily(locked, EnteredBounds)
  \/ ChangeOneTime(locked, EnteredBounds)
  \/ ToggleSavingsPanel(locked)

SpecAnyMultiplier == InitAnyMultiplier /\ [][NextAnyMultiplier]_vars

(***************************************************************************)
(* The two conversion helpers on their own: usd_to_krw on a USD amount,    *)
(* then krw_to_usd on its result.  The amounts are whole dollars (int, as  *)
(* FLIGHT_USD and ACCOM_WEEK_USD_PER_PERSON are) and dollars-and-cents     *)
(* (float: the literal c/100 is the float nearest to it).                  *)
(***************************************************************************)
MaxUsd == 20
MaxCents == 50

UsdInts == 0..MaxUsd \cup {ACCOM_WEEK_USD_PER_PERSON, FLIGHT_USD}
UsdFloats == {FDivInt(FromInt(c), 100) : c \in 0..MaxCents}

InitRoundTrip ==
  /\ \E s \in {Script(LOCKED, TRUE, DAILY_EDITABLE_DEFAULTS, ONE_TIME_DEFAULTS)} : IsRun(s)
  /\ rt_pc = "arg"
  /\ \/ rt_kind = "int" /\ rt_usd \in UsdInts
     \/ rt_kind = "float" /\ rt_usd \in UsdFloats
  /\ rt_krw = 0
  /\ rt_back = FZero

UNCHANGED_script ==
  UNCHANGED <<locked, show_savings_panel, flight_krw, accom_krw,
              edited_daily, daily_total_krw, daily_trip_total_krw,
              edited_one_time, one_time_total_krw,
              with_robin_on_ground_krw, with_robin_total_krw, with_robin_total_usd,
              solo_on_ground_krw, solo_total_krw, savings_krw,
              solo_total_usd, savings_usd>>

CallUsdToKrw ==
  /\ rt_pc = "arg"
  /\ rt_krw' = IF rt_kind = "int" THEN usd_to_krw(LOCKED, rt_usd)
                                  ELSE usd_to_krw_float(LOCKED, rt_usd)
  /\ rt_pc' = "krw"
  /\ UNCHANGED <<rt_kind, rt_usd, rt_back>>
  /\ UNCHANGED_script

CallKrwToUsd ==
  /\ rt_pc = "krw"
  /\ rt_back' = krw_to_usd(LOCKED, IF rt_kind = "int" THEN FromInt(rt_krw) ELSE rt_krw)
  /\ rt_pc' = "usd"
  /\ UNCHANGED <<rt_kind, rt_usd, rt_krw>>
  /\ UNCHANGED_script

NextRoundTrip == CallUsdToKrw \/ CallKrwToUsd

SpecRoundTrip == InitRoundTrip /\ [][NextRoundTrip]_vars

(***************************************************************************)
(* The claims.                                                             *)
(***************************************************************************)
Cafes == edited_daily["Cafes/snacks"]
Shopping == edited_daily["Shopping"]
Sim == edited_one_time["SIM/eSIM"]
Arex == edited_one_time["Airport train (AREX)"]
Buffer == edited_one_time["Buffer"]

\* a dyadic number: the int n, and 2^k
XInt(n) == [neg |-> n < 0, m |-> BNat(IF n < 0 THEN -n ELSE n), e |-> 0]
XPow2(k) == [neg |-> FALSE, m |-> <<1>>, e |-> k]

\* C1: after any sequence of edits the grand total is the sum of the daily
\* trip total, the one-time total, the accommodation and the flight, with
\* accommodation 100*1447 and flight 1500*1447.
C1_GrandTotal ==
  /\ with_robin_total_krw =
       daily_trip_total_krw + one_time_total_krw + accom_krw + flight_krw
  /\ accom_krw = 100 * 1447
  /\ flight_krw = 1500 * 1447

C1_Witness ==
  /\ Shopping = 0 /\ Buffer = 500000 /\ Cafes = 8000 /\ Sim = 30000 /\ Arex = 12000
  /\ with_robin_total_krw = 3508200

\* C2: the daily trip total is the daily total times the 7 nights, and the
\* daily total is the three fixed categories (35000, 10000, 40000) plus the
\* current values of the two editable ones.
C2_DailyTripTotal ==
  /\ daily_trip_total_krw = daily_total_krw * 7
  /\ daily_total_krw = 35000 + 10000 + 40000 + Cafes + Shopping

C2_Witness ==
  /\ Cafes = 500000 /\ Shopping = 1234
  /\ daily_total_krw = 586234
  /\ daily_trip_total_krw = 4103638

\* C3: whenever the savings are computed they are max(solo total - grand
\* total, 0) and never negative, whatever the multiplier, below 1 included.
C3_SavingsClamped ==
  show_savings_panel =>
    /\ ~XLess(savings_krw, FZero)
    /\ \E diff \in {FSub(solo_total_krw, FromInt(with_robin_total_krw))} :
         savings_krw = IF XLess(diff, FZero) THEN FZero ELSE diff

C3_Witness ==
  /\ show_savings_panel
  /\ XLess(locked.FOREIGNER_MULTIPLIER_ON_GROUND, FromInt(1))
  /\ Buffer = 500000
  /\ XLess(solo_total_krw, FromInt(with_robin_total_krw))
  /\ savings_krw = FZero

\* C4: with every editable field at its default the run yields daily total
\* 108000, daily trip total 756000, one-time total 82000, flight 2170500,
\* accommodation 144700, on-ground 982700, grand total 3153200, and in the
\* savings panel solo on-ground 2653290, solo total 4823790, savings 1670590.
C4_DefaultScenario ==
  (Cafes = 8000 /\ Shopping = 15000 /\ Sim = 30000 /\ Arex = 12000 /\ Buffer = 40000) =>
    /\ locked.NIGHTS = 7
    /\ locked.FX_KRW_PER_USD = 1447
    /\ locked.FLIGHT_USD = 1500
    /\ locked.ACCOM_WEEK_USD_PER_PERSON = 100
    /\ locked.FOREIGNER_MULTIPLIER_ON_GROUND = FDivInt(FromInt(27), 10)
    /\ daily_total_krw = 108000
    /\ daily_trip_total_krw = 756000
    /\ one_time_total_krw = 82000
    /\ flight_krw = 2170500
    /\ accom_krw = 144700
    /\ with_robin_on_ground_krw = 982700
    /\ with_robin_total_krw = 3153200
    /\ show_savings_panel =>
         /\ solo_on_ground_krw = FromInt(2653290)
         /\ solo_total_krw = FromInt(4823790)
         /\ savings_krw = FromInt(1670590)

C4_Witness ==
  /\ Cafes = 8000 /\ Shopping = 15000 /\ Sim = 30000 /\ Arex = 12000 /\ Buffer = 40000
  /\ show_savings_panel
  /\ with_robin_total_krw = 3153200
  /\ savings_krw = FromInt(1670590)

\* C5: the solo estimate multiplies the on-ground total only and adds the
\* flight unmultiplied, the same flight_krw the grand total adds.
C5_FlightNotMultiplied ==
  /\ with_robin_total_krw = with_robin_on_ground_krw + flight_krw
  /\ show_savings_panel =>
       /\ solo_on_ground_krw =
            FMul(FromInt(with_robin_on_ground_krw), FDivInt(FromInt(27), 10))
       /\ solo_total_krw = FAdd(solo_on_ground_krw, FromInt(flight_krw))

C5_Witness ==
  /\ show_savings_panel
  /\ Shopping = 0 /\ Buffer = 500000
  /\ with_robin_on_ground_krw = 1337700
  /\ XLess(FromInt(3611790), solo_on_ground_krw)
  /\ solo_total_krw = FromInt(5782290)

C7_LockedFrame ==
  /\ locked = [FX_KRW_PER_USD |-> 1447, NIGHTS |-> 7, FLIGHT_USD |-> 1500,
               ACCOM_WEEK_USD_PER_PERSON |-> 100,
               FOREIGNER_MULTIPLIER_ON_GROUND |-> FDivInt(FromInt(27), 10)]
  /\ DOMAIN edited_daily =
       {"Food (regular restaurants)", "Transit", "Activities", "Cafes/snacks", "Shopping"}
  /\ edited_daily["Food (regular restaurants)"] = 35000
  /\ edited_daily["Transit"] = 10000
  /\ edited_daily["Activities"] = 40000

C7_Witness ==
  /\ Cafes = 1234 /\ Shopping = 500000
  /\ ~show_savings_panel
  /\ edited_daily["Food (regular restaurants)"] = 35000

EditableFields == {Cafes, Shopping, Sim, Arex, Buffer}

AmountsNonNegative ==
  /\ \A v \in EditableFields : v >= 0
  /\ \A k \in DOMAIN edited_daily : edited_daily[k] >= 0
  /\ daily_total_krw >= 0 /\ daily_trip_total_krw >= 0 /\ one_time_total_krw >= 0
  /\ flight_krw >= 0 /\ accom_krw >= 0
  /\ with_robin_on_ground_krw >= 0 /\ with_robin_total_krw >= 0
  /\ ~XLess(with_robin_total_usd, FZero)
  /\ show_savings_panel =>
       /\ ~XLess(solo_on_ground_krw, FZero)
       /\ ~XLess(solo_total_krw, FZero)
       /\ ~XLess(savings_krw, FZero)
       /\ ~XLess(solo_total_usd, FZero)
       /\ ~XLess(savings_usd, FZero)

\* C8 as stated: every editable field is in [0, 500000] and a multiple of
\* 1000, and every amount and total is non-negative.
C8_Original ==
  /\ \A v \in EditableFields : min_value <= v /\ v <= max_value /\ v % step = 0
  /\ AmountsNonNegative

\* C8 as amended: every editable field is an int in [0, 500000], a multiple
\* of 1000 or not, and every amount and total is non-negative.
C8_RangeNonNegative ==
  /\ \A v \in EditableFields : v \in 0..500000
  /\ AmountsNonNegative

C8_Witness ==
  /\ Cafes = 500000 /\ Shopping = 0 /\ Sim = 1234
  /\ show_savings_panel

RoundTripArg == IF rt_kind = "int" THEN FromInt(rt_usd) ELSE rt_usd

C10_Original ==
  show_savings_panel =>
    /\ XLess(FromInt(with_robin_total_krw), solo_total_krw)
    /\ savings_krw = FDivInt(FromInt(17 * with_robin_on_ground_krw), 10)
    /\ XLess(FZero, savings_krw)

\* C10 as amended: the solo total exceeds the grand total, so the savings
\* are the unclamped difference, positive; the on-ground total is at least
\* the fixed baselines; and the savings are within 2^-20 KRW of
\* 1.7 * on-ground total.
C10_ClampNeverEngages ==
  /\ with_robin_on_ground_krw >= (35000 + 10000 + 40000) * 7 + 144700
  /\ show_savings_panel =>
       /\ XLess(FromInt(with_robin_total_krw), solo_total_krw)
       /\ savings_krw = FSub(solo_total_krw, FromInt(with_robin_total_krw))
       /\ XLess(FZero, savings_krw)
       /\ XLeq(XAbs(XSub(XMul(XInt(10), savings_krw),
                         XInt(17 * with_robin_on_ground_krw))),
               XMul(XInt(10), XPow2(-20)))

C10_Witness ==
  /\ show_savings_panel
  /\ Cafes = 0 /\ Shopping = 0 /\ Sim = 0 /\ Arex = 0 /\ Buffer = 0
  /\ with_robin_on_ground_krw = 739700
  /\ savings_krw = FromInt(1257490)
====
